---- MODULE Spec2Model ----
(***************************************************************************)
(* Gazette watcher backend (src/main.py): scrape the gazette listing page, *)
(* store newly observed postings, relay unnotified postings to Telegram,   *)
(* and run a background scheduler task that repeats the fetch cycle.       *)
(*                                                                         *)
(* Strings that the code inspects (href, anchor text, url) are modelled as *)
(* sequences of tokens, so that prefix tests, substring tests, stripping   *)
(* and concatenation are computed and not assumed.                         *)
(*                                                                         *)
(* Every handler body is synchronous between its awaits (requests and      *)
(* pymongo calls block the event loop), so one handler run is one step.    *)
(***************************************************************************)
EXTENDS Integers, Sequences, FiniteSets, TLC

\* ------------------------------------------------------------------ bounds
\* Longest listing page, in anchors.
MaxAnchors == 2
\* Most scheduler tasks ever created in one process (guards OnStartup).
MaxTasks == 2
\* Largest backlog of unnotified posts a notify run starts from.
MaxBacklog == 22
\* Longest candidate list handed to store_new_posts on its own.
MaxCandidates == 2
\* Longest page handed to the scraper on its own, in anchors.
MaxParseAnchors == 3

\* --------------------------------------------------------------- constants
\* .limit(20) of the unnotified query.
NotifyLimit == 20
\* default of the limit query parameter of /api/posts.
DefaultPostsLimit == 50

NoneTask == 0

\* Tokens of the strings the code looks into.
Site == "https://gazette.gov.mv"
ViewPrefix == "/iulaan/view/"
Space == " "
Newline == "\n"

\* -------------------------------------------------------- python exceptions
\* Direct base class of each exception class that can be raised here.
ExceptionBase(cls) ==
    CASE cls = "HTTPException" -> "Exception"
      [] cls = "RequestException" -> "Exception"
      [] cls = "CancelledError" -> "BaseException"
      [] cls = "Exception" -> "BaseException"
      [] OTHER -> "object"

RECURSIVE IsSubclass(_, _)
IsSubclass(cls, of) ==
    IF cls = of THEN TRUE
    ELSE IF cls = "object" THEN FALSE
    ELSE IsSubclass(ExceptionBase(cls), of)

NoExc == [cls |-> "None", status_code |-> 0]
HTTPException(code) == [cls |-> "HTTPException", status_code |-> code]
RequestException == [cls |-> "RequestException", status_code |-> 0]
CancelledError == [cls |-> "CancelledError", status_code |-> 0]

Raised(e) == e.cls # "None"

\* ----------------------------------------------------------- gazette client
\* str.startswith on a token string.
StartsWith(s, tok) == Len(s) > 0 /\ s[1] = tok
\* href.startswith("http"): the only http-prefixed token is the site origin.
StartsWithHttp(s) == Len(s) > 0 /\ s[1] \in {Site}
\* `tok in s`.
Contains(s, tok) == \E i \in 1..Len(s) : s[i] = tok

\* get_text(strip=True): leading and trailing whitespace removed.
RECURSIVE LStrip(_)
LStrip(s) == IF s # <<>> /\ Head(s) = Space THEN LStrip(Tail(s)) ELSE s
RECURSIVE RStrip(_)
RStrip(s) ==
    IF s # <<>> /\ s[Len(s)] = Space THEN RStrip(SubSeq(s, 1, Len(s) - 1)) ELSE s
GetTextStrip(s) == RStrip(LStrip(s))

\* href if href.startswith("http") else f"https://gazette.gov.mv{href}"
AbsoluteUrl(href) == IF StartsWithHttp(href) THEN href ELSE <<Site>> \o href

\* Variant: no URL is ever found among the posts collected so far.
HasUrl_Never(posts, url) == FALSE

\* any(p["url"] == url for p in posts)
HasUrl(posts, url) == \E i \in 1..Len(posts) : posts[i].url = url

\* soup.select('a[href^="/iulaan/view/"]')
SelectPrimary(page) == SelectSeq(page, LAMBDA a : StartsWith(a.href, ViewPrefix))
\* soup.select("li a")
SelectListItems(page) == SelectSeq(page, LAMBDA a : a.inLi)

\* The primary loop over the selected anchors.
RECURSIVE PrimaryLoop(_, _)
PrimaryLoop(anchors, posts) ==
    IF anchors = <<>> THEN posts
    ELSE LET a == Head(anchors)
             title == GetTextStrip(a.text)
             href == a.href
             url == AbsoluteUrl(href)
         IN  IF title = <<>> \/ href = <<>>
             THEN PrimaryLoop(Tail(anchors), posts)
             ELSE IF ~HasUrl(posts, url)
             THEN PrimaryLoop(Tail(anchors), Append(posts, [title |-> title, url |-> url]))
             ELSE PrimaryLoop(Tail(anchors), posts)

\* The fallback loop over the list-item anchors.
RECURSIVE FallbackLoop(_, _)
FallbackLoop(anchors, posts) ==
    IF anchors = <<>> THEN posts
    ELSE LET a == Head(anchors)
             href == a.href
             title == GetTextStrip(a.text)
             url == AbsoluteUrl(href)
         IN  IF href # <<>> /\ title # <<>> /\ Contains(href, ViewPrefix)
                /\ ~HasUrl(posts, url)
             THEN FallbackLoop(Tail(anchors), Append(posts, [title |-> title, url |-> url]))
             ELSE FallbackLoop(Tail(anchors), posts)

\* Variant: the list-item anchors are always scanned as well.
ParsePosts_Mixed(page) ==
    FallbackLoop(SelectListItems(page), PrimaryLoop(SelectPrimary(page), <<>>))

\* BeautifulSoup parse plus both strategies: the posts of one page.
ParsePosts(page) ==
    LET posts == PrimaryLoop(SelectPrimary(page), <<>>)
    IN  IF posts = <<>> THEN FallbackLoop(SelectListItems(page), <<>>) ELSE posts

\* fetch_gazette_posts(): remote is what requests.get does on this call.
fetch_gazette_posts(remote) ==
    IF remote.kind = "raise" THEN [exc |-> RequestException, posts |-> <<>>]
    ELSE IF remote.status_code # 200
    THEN [exc |-> HTTPException(502), posts |-> <<>>]
    ELSE [exc |-> NoExc, posts |-> ParsePosts(remote.page)]

\* --------------------------------------------------------------- post store
\* get_documents("gazettepost", {}): every stored document.
get_documents(coll) == coll

\* create_document("gazettepost", data): the storage layer assigns the id and
\* stamps created_at / updated_at; documents are kept in insertion order.
create_document(coll, clock, data) ==
    Append(coll, [id |-> Len(coll) + 1,
                  title |-> data.title,
                  url |-> data.url,
                  notified |-> data.notified,
                  created_at |-> clock + 1,
                  updated_at |-> clock + 1])

\* Variant: the membership set is built from the wrong key.
ExistingUrls_ByTitle(existing) == {existing[i].title : i \in 1..Len(existing)}

\* Variant: the membership set is a stale read, taken while the store was empty.
ExistingUrls_Stale(existing) == {}

\* {doc.get("url") for doc in existing}
ExistingUrls(existing) == {existing[i].url : i \in 1..Len(existing)}

\* Variant: every candidate is inserted, the membership test is missing.
RECURSIVE InsertLoop_NoCheck(_, _, _, _, _)
InsertLoop_NoCheck(posts, existing_urls, coll, clock, new_posts) ==
    IF posts = <<>> THEN [coll |-> coll, clock |-> clock, new_posts |-> new_posts]
    ELSE LET p == Head(posts)
         IN  InsertLoop_NoCheck(Tail(posts), existing_urls,
                                create_document(coll, clock,
                                    [title |-> p.title, url |-> p.url, notified |-> FALSE]),
                                clock + 1, Append(new_posts, p))

\* Variant: the membership set grows with every insert of the call.
RECURSIVE InsertLoop_Extending(_, _, _, _, _)
InsertLoop_Extending(posts, existing_urls, coll, clock, new_posts) ==
    IF posts = <<>> THEN [coll |-> coll, clock |-> clock, new_posts |-> new_posts]
    ELSE LET p == Head(posts)
         IN  IF p.url \notin existing_urls
             THEN InsertLoop_Extending(Tail(posts), existing_urls \cup {p.url},
                             create_document(coll, clock,
                                 [title |-> p.title, url |-> p.url, notified |-> FALSE]),
                             clock + 1, Append(new_posts, p))
             ELSE InsertLoop_Extending(Tail(posts), existing_urls, coll, clock, new_posts)

\* for p in posts: insert when p["url"] not in existing_urls.
RECURSIVE InsertLoop(_, _, _, _, _)
InsertLoop(posts, existing_urls, coll, clock, new_posts) ==
    IF posts = <<>> THEN [coll |-> coll, clock |-> clock, new_posts |-> new_posts]
    ELSE LET p == Head(posts)
         IN  IF p.url \notin existing_urls
             THEN InsertLoop(Tail(posts), existing_urls,
                             create_document(coll, clock,
                                 [title |-> p.title, url |-> p.url, notified |-> FALSE]),
                             clock + 1, Append(new_posts, p))
             ELSE InsertLoop(Tail(posts), existing_urls, coll, clock, new_posts)

\* Variant: the call returns its input and not the posts it inserted.
store_new_posts_ReturnsAll(dbSet, coll, clock, posts) ==
    IF ~dbSet
    THEN [exc |-> HTTPException(500), coll |-> coll, clock |-> clock, new_posts |-> <<>>]
    ELSE LET existing == get_documents(coll)
             r == InsertLoop(posts, ExistingUrls(existing), coll, clock, <<>>)
         IN  [exc |-> NoExc, coll |-> r.coll, clock |-> r.clock, new_posts |-> posts]

\* store_new_posts(posts)
store_new_posts(dbSet, coll, clock, posts) ==
    IF ~dbSet
    THEN [exc |-> HTTPException(500), coll |-> coll, clock |-> clock, new_posts |-> <<>>]
    ELSE LET existing == get_documents(coll)
             r == InsertLoop(posts, ExistingUrls(existing), coll, clock, <<>>)
         IN  [exc |-> NoExc, coll |-> r.coll, clock |-> r.clock, new_posts |-> r.new_posts]

\* Variant: the store is checked ahead of the remote fetch.
fetch_and_store_StoreFirst(dbSet, coll, clock, remote) ==
    IF ~dbSet
    THEN [exc |-> HTTPException(500), posts |-> <<>>, new_posts |-> <<>>,
          coll |-> coll, clock |-> clock]
    ELSE LET f == fetch_gazette_posts(remote)
         IN  IF Raised(f.exc)
             THEN [exc |-> f.exc, posts |-> <<>>, new_posts |-> <<>>,
                   coll |-> coll, clock |-> clock]
             ELSE LET s == store_new_posts(dbSet, coll, clock, f.posts)
                  IN  [exc |-> s.exc, posts |-> f.posts, new_posts |-> s.new_posts,
                       coll |-> s.coll, clock |-> s.clock]

\* posts = fetch_gazette_posts(); new_posts = store_new_posts(posts)
\* (the body shared by api_fetch and by one cycle of _scheduler_loop).
fetch_and_store(dbSet, coll, clock, remote) ==
    LET f == fetch_gazette_posts(remote)
    IN  IF Raised(f.exc)
        THEN [exc |-> f.exc, posts |-> <<>>, new_posts |-> <<>>,
              coll |-> coll, clock |-> clock]
        ELSE LET s == store_new_posts(dbSet, coll, clock, f.posts)
             IN  [exc |-> s.exc, posts |-> f.posts, new_posts |-> s.new_posts,
                  coll |-> s.coll, clock |-> s.clock]

\* Status the framework answers with when a handler raises exc (or returns).
ResponseStatus(exc) ==
    IF ~Raised(exc) THEN 200
    ELSE IF exc.cls = "HTTPException" THEN exc.status_code
    ELSE 500

\* ------------------------------------------------------------------ notifier
\* Variant: any response counts as delivered.
SendOk_AnyResponse(status_code) == TRUE

\* `res.status_code == 200`
SendOk(status_code) == status_code = 200

\* `except Exception:` of send_telegram_message.
SendCatches(exc) == IsSubclass(exc.cls, "Exception")

\* send_telegram_message(): outcome is what requests.post does on this call.
\* The result is the value returned (ok) and the exception that leaves the
\* function (exc); attempts counts the calls of requests.post.
send_telegram_message(outcome) ==
    LET raised == IF outcome.kind = "raise" THEN RequestException ELSE NoExc
    IN  IF Raised(raised)
        THEN IF SendCatches(raised)
             THEN [ok |-> FALSE, exc |-> NoExc, attempts |-> 1]
             ELSE [ok |-> FALSE, exc |-> raised, attempts |-> 1]
        ELSE [ok |-> SendOk(outcome.status_code), exc |-> NoExc, attempts |-> 1]

\* Variant: the query has no filter.
FindUnnotified_All(coll) == coll

\* find({"notified": False})
FindUnnotified(coll) == SelectSeq(coll, LAMBDA d : ~d.notified)

\* .sort("created_at", -1): insertion of each document into a descending list.
RECURSIVE InsertDesc(_, _)
InsertDesc(d, sorted) ==
    IF sorted = <<>> THEN <<d>>
    ELSE IF d.created_at > Head(sorted).created_at THEN <<d>> \o sorted
    ELSE <<Head(sorted)>> \o InsertDesc(d, Tail(sorted))
RECURSIVE SortCreatedDesc(_)
SortCreatedDesc(docs) ==
    IF docs = <<>> THEN <<>>
    ELSE InsertDesc(Head(docs), SortCreatedDesc(Tail(docs)))

\* Variant: the query has no limit.
Limit_None(docs, n) == docs

\* .limit(n): 0 means no limit.
Limit(docs, n) ==
    IF n = 0 \/ Len(docs) <= n THEN docs ELSE SubSeq(docs, 1, n)

\* Variant: the documents are iterated as the query returned them.
Reversed_Identity(docs) == docs

\* reversed(docs)
Reversed(docs) == [i \in 1..Len(docs) |-> docs[Len(docs) + 1 - i]]

\* Variant: the filter of the update matches every document.
update_one_Many(coll, id, clock) ==
    [i \in 1..Len(coll) |->
        [coll[i] EXCEPT !.notified = TRUE, !.updated_at = clock + 1]]

\* Variant: the filter of the update matches no document.
update_one_NoMatch(coll, id, clock) == coll

\* update_one({"_id": id}, {"$set": {"notified": True, "updated_at": time.time()}})
update_one(coll, id, clock) ==
    [i \in 1..Len(coll) |->
        IF coll[i].id = id
        THEN [coll[i] EXCEPT !.notified = TRUE, !.updated_at = clock + 1]
        ELSE coll[i]]

\* The documents api_notify selects.
NotifyDocs(coll) == Limit(SortCreatedDesc(FindUnnotified(coll)), NotifyLimit)

\* Variant: a failed send does not end the loop.
RECURSIVE NotifyLoop_NoBreak(_, _, _, _, _, _, _)
NotifyLoop_NoBreak(ds, k, outcomes, coll, clock, sent, events) ==
    IF ds = <<>>
    THEN [exc |-> NoExc, coll |-> coll, clock |-> clock, sent |-> sent, events |-> events]
    ELSE LET d == Head(ds)
             text == d.title \o <<Newline>> \o d.url
             s == send_telegram_message(outcomes[k])
             sendEv == [ev |-> "send", id |-> d.id, ok |-> s.ok, text |-> text,
                        outcome |-> outcomes[k], attempts |-> s.attempts]
         IN  IF Raised(s.exc)
             THEN [exc |-> s.exc, coll |-> coll, clock |-> clock, sent |-> sent,
                   events |-> Append(events, sendEv)]
             ELSE IF s.ok
             THEN NotifyLoop_NoBreak(Tail(ds), k + 1, outcomes,
                             update_one(coll, d.id, clock), clock + 1, sent + 1,
                             events \o <<sendEv, [sendEv EXCEPT !.ev = "mark"]>>)
             ELSE NotifyLoop_NoBreak(Tail(ds), k + 1, outcomes, coll, clock, sent,
                                     Append(events, sendEv))

\* The send loop of api_notify over ds (already in sending order); outcomes[k]
\* is the outcome of the k-th send.  events is the trace of sends and marks;
\* exc is the exception that leaves the loop, if a send lets one through.
RECURSIVE NotifyLoop(_, _, _, _, _, _, _)
NotifyLoop(ds, k, outcomes, coll, clock, sent, events) ==
    IF ds = <<>>
    THEN [exc |-> NoExc, coll |-> coll, clock |-> clock, sent |-> sent, events |-> events]
    ELSE LET d == Head(ds)
             text == d.title \o <<Newline>> \o d.url
             s == send_telegram_message(outcomes[k])
             sendEv == [ev |-> "send", id |-> d.id, ok |-> s.ok, text |-> text,
                        outcome |-> outcomes[k], attempts |-> s.attempts]
         IN  IF Raised(s.exc)
             THEN [exc |-> s.exc, coll |-> coll, clock |-> clock, sent |-> sent,
                   events |-> Append(events, sendEv)]
             ELSE IF s.ok
             THEN NotifyLoop(Tail(ds), k + 1, outcomes,
                             update_one(coll, d.id, clock), clock + 1, sent + 1,
                             events \o <<sendEv, [sendEv EXCEPT !.ev = "mark"]>>)
             ELSE [exc |-> NoExc, coll |-> coll, clock |-> clock, sent |-> sent,
                   events |-> Append(events, sendEv)]

\* api_notify(cfg)
api_notify(dbSet, coll, clock, outcomes) ==
    IF ~dbSet
    THEN [exc |-> HTTPException(500), coll |-> coll, clock |-> clock,
          sent |-> 0, events |-> <<>>]
    ELSE LET docs == NotifyDocs(coll)
         IN  IF docs = <<>>
             THEN [exc |-> NoExc, coll |-> coll, clock |-> clock,
                   sent |-> 0, events |-> <<>>]
             ELSE LET r == NotifyLoop(Reversed(docs), 1, outcomes, coll, clock, 0, <<>>)
                  IN  [exc |-> r.exc, coll |-> r.coll, clock |-> r.clock,
                       sent |-> r.sent, events |-> r.events]

\* str(d["_id"]), str(d["created_at"]), str(d["updated_at"])
Str(v) == [str |-> v]

\* api_posts(limit)
api_posts(dbSet, coll, limit) ==
    IF ~dbSet THEN [exc |-> HTTPException(500), items |-> <<>>]
    ELSE LET docs == Limit(SortCreatedDesc(coll), limit)
         IN  [exc |-> NoExc,
              items |-> [i \in 1..Len(docs) |->
                            [id |-> Str(docs[i].id),
                             title |-> docs[i].title,
                             url |-> docs[i].url,
                             notified |-> docs[i].notified,
                             created_at |-> Str(docs[i].created_at),
                             updated_at |-> Str(docs[i].updated_at)]]]

\* ------------------------------------------------------------ scheduler task
\* asyncio.create_task(_scheduler_loop()): a task that has not run yet.
NewTask == [pc |-> "Idle", exc |-> NoExc]

\* A task whose coroutine has ended (by cancellation or by an exception).
Done(t) == t.pc \in {"Cancelled", "Failed"}

\* Task.cancel(): CancelledError is thrown into the coroutine at its await (or
\* ahead of its first step); no handler of _scheduler_loop encloses an await, so
\* the coroutine ends.  A task that is done is left as it is.
Cancel(t) == IF Done(t) THEN t ELSE [pc |-> "Cancelled", exc |-> CancelledError]

\* `await task` on a task that is done: re-raises what ended it.
AwaitDone(t) == t.exc

\* Variant: the loop catches HTTPException only.
LoopCatches_OnlyHTTP(exc) == IsSubclass(exc.cls, "HTTPException")

\* `except Exception:` of _scheduler_loop.
LoopCatches(exc) == IsSubclass(exc.cls, "Exception")

\* `except Exception:` of on_shutdown.
ShutdownCatches(exc) == IsSubclass(exc.cls, "Exception")

\* One pass of the `while True` body up to the interval sleep.
scheduler_cycle(t, dbSet, coll, clock, remote) ==
    LET r == fetch_and_store(dbSet, coll, clock, remote)
    IN  IF ~Raised(r.exc) \/ LoopCatches(r.exc)
        THEN [task |-> [pc |-> "Sleep", exc |-> NoExc], r |-> r]
        ELSE [task |-> [pc |-> "Failed", exc |-> r.exc], r |-> r]

\* Variant: the task is created whatever the handle holds.
on_startup_Always(handle, ts) ==
    [handle |-> Len(ts) + 1, ts |-> Append(ts, NewTask)]

\* on_startup()
on_startup(handle, ts) ==
    IF handle = NoneTask
    THEN [handle |-> Len(ts) + 1, ts |-> Append(ts, NewTask)]
    ELSE [handle |-> handle, ts |-> ts]

\* on_shutdown()
on_shutdown(handle, ts) ==
    IF handle # NoneTask
    THEN LET cancelled == [ts EXCEPT ![handle] = Cancel(ts[handle])]
             exc == AwaitDone(cancelled[handle])
         IN  IF ShutdownCatches(exc)
             THEN [handle |-> NoneTask, ts |-> cancelled, exc |-> NoExc]
             ELSE [handle |-> handle, ts |-> cancelled, exc |-> exc]
    ELSE [handle |-> handle, ts |-> ts, exc |-> NoExc]

\* ------------------------------------------------------------ inputs
Anchor1 == [href |-> <<ViewPrefix, "1">>, text |-> <<"Title A">>, inLi |-> FALSE]
Anchor2 == [href |-> <<ViewPrefix, "2">>, text |-> <<Space, "Title B">>, inLi |-> TRUE]
Anchor3 == [href |-> <<Site, ViewPrefix, "3">>, text |-> <<"Title C", Space>>, inLi |-> TRUE]

\* Anchors a listing page is made of.
Anchors == {Anchor1, Anchor2, Anchor3}

\* Listing pages.
Pages == UNION {[1..n -> Anchors] : n \in 0..MaxAnchors}

\* What requests.get can do: a response (200 with a page, or another status),
\* or a transport failure.
Remotes ==
    {[kind |-> "response", status_code |-> 200, page |-> p] : p \in Pages}
    \cup {[kind |-> "response", status_code |-> c, page |-> <<>>] : c \in {204, 503}}
    \cup {[kind |-> "raise", status_code |-> 0, page |-> <<>>]}

\* What a handler saw of the remote: the kind of outcome and the status.
Seen(remote) == [kind |-> remote.kind, status_code |-> remote.status_code]
NoRemote == [kind |-> "none", status_code |-> 0]

\* What requests.post can do on one send.
SendOutcomes ==
    {[kind |-> "response", status_code |-> 200],
     [kind |-> "response", status_code |-> 429],
     [kind |-> "raise", status_code |-> 0]}

\* limit values of /api/posts.
PostsLimits == {0, 1, DefaultPostsLimit}

\* ------------------------------------------------------------------- state
VARIABLES
    db,               \* TRUE when the database handle is not None
    store,            \* collection "gazettepost", in insertion order
    now,              \* storage clock: the last timestamp handed out
    tasks,            \* every scheduler task created so far
    _scheduler_task,  \* the module-level handle: NoneTask or an index of tasks
    lastOp,           \* the last handler or cycle that ran, with its result
    delivered         \* history: post id -> messages Telegram accepted for it

vars == <<db, store, now, tasks, _scheduler_task, lastOp, delivered>>

\* The record of an operation; each handler fills in its own fields.
Op(kind) ==
    [kind |-> kind, status |-> 0, exc |-> NoExc, remote |-> NoRemote,
     posts |-> <<>>, fetched |-> 0, new |-> 0, new_posts |-> <<>>, repeat |-> FALSE,
     sent |-> 0, events |-> <<>>, items |-> <<>>, page |-> <<>>]

\* The operation about to run re-fetches what the last operation fetched:
\* the last operation was a fetch cycle that succeeded, and the page scraped
\* now holds the same postings in the same order.
Refetch(r) ==
    /\ lastOp.kind \in {"fetch", "cycle"}
    /\ ~Raised(lastOp.exc)
    /\ ~Raised(r.exc)
    /\ lastOp.posts = r.posts

\* The deliveries so far, extended by the sends of a trace that Telegram
\* accepted (a 200 response to requests.post).
Accepted(events, id) ==
    Cardinality({k \in 1..Len(events) :
                    /\ events[k].ev = "send"
                    /\ events[k].id = id
                    /\ events[k].outcome.kind = "response"
                    /\ events[k].outcome.status_code = 200})
Deliveries(log, events) ==
    LET ids == DOMAIN log \cup {events[k].id : k \in 1..Len(events)}
    IN  [id \in ids |-> (IF id \in DOMAIN log THEN log[id] ELSE 0)
                          + Accepted(events, id)]

Init ==
    /\ db \in BOOLEAN
    /\ store = <<>>
    /\ now = 0
    /\ tasks = <<>>
    /\ _scheduler_task = NoneTask
    /\ lastOp = Op("init")
    /\ delivered = <<>>

\* GET /
Root ==
    /\ lastOp' = [Op("root") EXCEPT !.status = 200]
    /\ UNCHANGED <<db, store, now, tasks, _scheduler_task, delivered>>

\* GET /api/fetch
ApiFetch(remote) ==
    \E r \in {fetch_and_store(db, store, now, remote)} :
        /\ store' = r.coll
        /\ now' = r.clock
        /\ lastOp' = [Op("fetch") EXCEPT !.status = ResponseStatus(r.exc),
                                         !.exc = r.exc,
                                         !.remote = Seen(remote),
                                         !.posts = r.posts,
                                         !.fetched = Len(r.posts),
                                         !.new = Len(r.new_posts),
                                         !.new_posts = r.new_posts,
                                         !.repeat = Refetch(r)]
        /\ UNCHANGED <<db, tasks, _scheduler_task, delivered>>

\* POST /api/notify
ApiNotify(outcomes) ==
    \E r \in {api_notify(db, store, now, outcomes)} :
        /\ store' = r.coll
        /\ now' = r.clock
        /\ lastOp' = [Op("notify") EXCEPT !.status = ResponseStatus(r.exc),
                                          !.exc = r.exc,
                                          !.sent = r.sent,
                                          !.events = r.events]
        /\ delivered' = Deliveries(delivered, r.events)
        /\ UNCHANGED <<db, tasks, _scheduler_task>>

\* GET /api/posts
ApiPosts(limit) ==
    \E r \in {api_posts(db, store, limit)} :
        /\ lastOp' = [Op("posts") EXCEPT !.status = ResponseStatus(r.exc),
                                         !.exc = r.exc,
                                         !.items = r.items]
        /\ UNCHANGED <<db, store, now, tasks, _scheduler_task, delivered>>

\* startup event
OnStartup ==
    \E r \in {on_startup(_scheduler_task, tasks)} :
        /\ Len(r.ts) <= MaxTasks
        /\ tasks' = r.ts
        /\ _scheduler_task' = r.handle
        /\ lastOp' = Op("startup")
        /\ UNCHANGED <<db, store, now, delivered>>

\* shutdown event
OnShutdown ==
    \E r \in {on_shutdown(_scheduler_task, tasks)} :
        /\ tasks' = r.ts
        /\ _scheduler_task' = r.handle
        /\ lastOp' = [Op("shutdown") EXCEPT !.exc = r.exc]
        /\ UNCHANGED <<db, store, now, delivered>>

\* Variant: the loop has no warm-up sleep, its first step reaches the cycle.
TaskStart_NoWarmup(i) ==
    /\ tasks[i].pc = "Idle"
    /\ tasks' = [tasks EXCEPT ![i].pc = "FetchAndStore"]
    /\ UNCHANGED <<db, store, now, _scheduler_task, lastOp, delivered>>

\* First step of the task: runs up to `await asyncio.sleep(5)`.
TaskStart(i) ==
    /\ tasks[i].pc = "Idle"
    /\ tasks' = [tasks EXCEPT ![i].pc = "Warmup"]
    /\ UNCHANGED <<db, store, now, _scheduler_task, lastOp, delivered>>

\* The sleep the task awaits (warm-up or interval) is over.
TimerElapsed(i) ==
    /\ tasks[i].pc \in {"Warmup", "Sleep"}
    /\ tasks' = [tasks EXCEPT ![i].pc = "FetchAndStore"]
    /\ UNCHANGED <<db, store, now, _scheduler_task, lastOp, delivered>>

\* The task resumes: one fetch cycle, then `await asyncio.sleep(1800)`.
SchedulerCycle(i, remote) ==
    /\ tasks[i].pc = "FetchAndStore"
    /\ \E c \in {scheduler_cycle(tasks[i], db, store, now, remote)} :
           /\ tasks' = [tasks EXCEPT ![i] = c.task]
           /\ store' = c.r.coll
           /\ now' = c.r.clock
           /\ lastOp' = [Op("cycle") EXCEPT !.exc = c.r.exc,
                                            !.remote = Seen(remote),
                                            !.posts = c.r.posts,
                                            !.fetched = Len(c.r.posts),
                                            !.new = Len(c.r.new_posts),
                                            !.new_posts = c.r.new_posts,
                                            !.repeat = Refetch(c.r)]
    /\ UNCHANGED <<db, _scheduler_task, delivered>>

\* The task is cancelled by something other than on_shutdown.
CancelTask(i) ==
    /\ ~Done(tasks[i])
    /\ tasks' = [tasks EXCEPT ![i] = Cancel(tasks[i])]
    /\ UNCHANGED <<db, store, now, _scheduler_task, lastOp, delivered>>

TaskIds == 1..Len(tasks)

Next ==
    \/ Root
    \/ \E remote \in Remotes : ApiFetch(remote)
    \/ \E outcomes \in [1..Len(NotifyDocs(store)) -> SendOutcomes] : ApiNotify(outcomes)
    \/ \E limit \in PostsLimits : ApiPosts(limit)
    \/ OnStartup
    \/ OnShutdown
    \/ \E i \in TaskIds : TaskStart(i)
    \/ \E i \in TaskIds : TimerElapsed(i)
    \/ \E i \in TaskIds, remote \in Remotes : SchedulerCycle(i, remote)
    \/ \E i \in TaskIds : CancelTask(i)

Spec == Init /\ [][Next]_vars

\* The event loop runs every runnable task and fires every due timer: weak
\* fairness of the three steps of a task.  Each is written out as "the step
\* is impossible again and again, or it is taken again and again"; a task
\* can start when it is Idle, its timer can elapse when it sleeps, and it can
\* run its cycle when the sleep is over.
Fairness ==
    /\ \/ []<>(\A i \in TaskIds : tasks[i].pc # "Idle")
       \/ []<><<\E i \in TaskIds : TaskStart(i)>>_vars
    /\ \/ []<>(\A i \in TaskIds : tasks[i].pc \notin {"Warmup", "Sleep"})
       \/ []<><<\E i \in TaskIds : TimerElapsed(i)>>_vars
    /\ \/ []<>(\A i \in TaskIds : tasks[i].pc # "FetchAndStore")
       \/ []<><<\E i \in TaskIds :
                   /\ tasks[i].pc = "FetchAndStore"
                   /\ tasks'[i].pc # "FetchAndStore"
                   /\ \E remote \in Remotes : SchedulerCycle(i, remote)>>_vars

LiveSpec == Init /\ [][Next]_vars /\ Fairness

TypeOK ==
    /\ db \in BOOLEAN
    /\ now \in Nat
    /\ _scheduler_task \in 0..Len(tasks)

\* ------------------------------------------------- notify runs on a backlog
\* The postings of one listing page with n distinct postings.
Listing(n) ==
    [i \in 1..n |-> [title |-> <<"Title", ToString(i)>>,
                     url |-> <<Site, ViewPrefix, ToString(i)>>]]

\* The store after one fetch cycle has stored a listing of n new postings.
Backlog(n) == store_new_posts(TRUE, <<>>, 0, Listing(n))

Ok200 == [kind |-> "response", status_code |-> 200]

\* Outcomes of the sends of one notify call over n posts: every send is
\* accepted, or the f-th send is the first that fails, for the first, the
\* second and the last send.
AllOk(n) == [k \in 1..n |-> Ok200]
FailAt(n, f, bad) == [k \in 1..n |-> IF k = f THEN bad ELSE Ok200]
FailPositions(n) == {1, 2, n} \cap (1..n)
DrainOutcomes(n) ==
    {AllOk(n)}
    \cup {FailAt(n, f, bad) : f \in FailPositions(n), bad \in SendOutcomes \ {Ok200}}

\* Backlogs a run starts from: none, and those around the limit of one call
\* (smaller ones are what a call leaves behind).
BacklogSizes == {0} \cup ((NotifyLimit - 1)..MaxBacklog)

NotifyInit ==
    /\ db = TRUE
    /\ \E n \in BacklogSizes :
           \E b \in {Backlog(n)} : store = b.coll /\ now = b.clock
    /\ tasks = <<>>
    /\ _scheduler_task = NoneTask
    /\ lastOp = Op("init")
    /\ delivered = <<>>

NotifyNext ==
    \E outcomes \in DrainOutcomes(Len(NotifyDocs(store))) : ApiNotify(outcomes)

\* Only notify calls run, on a store that one fetch cycle has filled.
NotifySpec == NotifyInit /\ [][NotifyNext]_vars

\* A notify call all of whose sends Telegram accepts.
NotifyAccepted == ApiNotify(AllOk(Len(NotifyDocs(store))))

\* POST /api/notify is called again and again with every send accepted, for
\* as long as a post is unnotified (such a call can always be made; with a
\* post unnotified it changes the store).
NotifyAgain ==
    \/ []<>(\A i \in 1..Len(store) : store[i].notified)
    \/ []<><<NotifyAccepted>>_vars

NotifyLiveSpec == NotifyInit /\ [][NotifyNext]_vars /\ NotifyAgain

\* ------------------------------------------------ store_new_posts on its own
CandidateA == [title |-> <<"Title A">>, url |-> <<Site, ViewPrefix, "1">>]
CandidateB == [title |-> <<"Title B">>, url |-> <<Site, ViewPrefix, "1">>]
CandidateC == [title |-> <<"Title C">>, url |-> <<Site, ViewPrefix, "2">>]
Candidates == {CandidateA, CandidateB, CandidateC}

\* Candidate lists: any order, the same URL may come twice.
CandidateLists == UNION {[1..n -> Candidates] : n \in 0..MaxCandidates}

\* A direct call store_new_posts(posts).
StoreCall(posts) ==
    \E r \in {store_new_posts(db, store, now, posts)} :
        /\ store' = r.coll
        /\ now' = r.clock
        /\ lastOp' = [Op("store") EXCEPT !.exc = r.exc,
                                         !.posts = posts,
                                         !.new = Len(r.new_posts),
                                         !.new_posts = r.new_posts]
        /\ UNCHANGED <<db, tasks, _scheduler_task, delivered>>

StoreNext == \E posts \in CandidateLists : StoreCall(posts)

StoreSpec == Init /\ [][StoreNext]_vars

\* -------------------------------------------- fetch_gazette_posts on its own
\* Anchors of a page: primary and list-item anchors, the same URL written
\* relative and absolute, blank text, a missing href, an unrelated link.
ParseAnchors ==
    {[href |-> <<ViewPrefix, "1">>, text |-> <<"Title A">>, inLi |-> FALSE],
     [href |-> <<ViewPrefix, "1">>, text |-> <<Space, "Title B">>, inLi |-> TRUE],
     [href |-> <<ViewPrefix, "2">>, text |-> <<Space>>, inLi |-> TRUE],
     [href |-> <<ViewPrefix, "2">>, text |-> <<"Title C">>, inLi |-> FALSE],
     [href |-> <<Site, ViewPrefix, "1">>, text |-> <<"Title D">>, inLi |-> TRUE],
     [href |-> <<"/en", ViewPrefix, "2">>, text |-> <<"Title E", Space>>, inLi |-> TRUE],
     [href |-> <<Site, ViewPrefix, "2">>, text |-> <<"Title F">>, inLi |-> FALSE],
     [href |-> <<>>, text |-> <<"Title G">>, inLi |-> TRUE],
     [href |-> <<"/about">>, text |-> <<"Title H">>, inLi |-> TRUE]}

ParsePages == UNION {[1..n -> ParseAnchors] : n \in 0..MaxParseAnchors}

\* The page the listing URL will answer with is drawn at the start.
ParseInit ==
    /\ db \in BOOLEAN
    /\ store = <<>>
    /\ now = 0
    /\ tasks = <<>>
    /\ _scheduler_task = NoneTask
    /\ \E page \in ParsePages : lastOp = [Op("init") EXCEPT !.page = page]
    /\ delivered = <<>>

\* A direct call fetch_gazette_posts() answered by a 200 with the page.
FetchCall ==
    /\ lastOp.kind = "init"
    /\ \E r \in {fetch_gazette_posts([kind |-> "response", status_code |-> 200,
                                        page |-> lastOp.page])} :
           lastOp' = [Op("scrape") EXCEPT !.exc = r.exc,
                                          !.page = lastOp.page,
                                          !.posts = r.posts,
                                          !.fetched = Len(r.posts)]
    /\ UNCHANGED <<db, store, now, tasks, _scheduler_task, delivered>>

ParseNext == FetchCall

ParseSpec == ParseInit /\ [][ParseNext]_vars

\* ============================================================ properties
\* Helpers of the properties (independent of the operators above).

\* The step is a run of the handler `kind`.
Ran(kind) == lastOp' # lastOp /\ lastOp'.kind = kind

\* Post i of the store after the step is notified and was not so before it.
NewlyNotified(i) == store'[i].notified /\ (i > Len(store) \/ ~store[i].notified)

\* The stored document with this id.
DocOf(coll, id) == coll[CHOOSE i \in 1..Len(coll) : coll[i].id = id]

\* Positions of the send events of a trace.
SendAt(events) == {k \in 1..Len(events) : events[k].ev = "send"}
MarkAt(events) == {k \in 1..Len(events) : events[k].ev = "mark"}

\* The j-th oldest unnotified document, by creation time.
Older(coll, d) ==
    {i \in 1..Len(coll) : ~coll[i].notified /\ coll[i].created_at < d.created_at}
NthOldestUnnotified(coll, j) ==
    CHOOSE d \in {coll[i] : i \in 1..Len(coll)} :
        ~d.notified /\ Cardinality(Older(coll, d)) = j - 1

\* First position of url in a list of scraped posts.
FirstAt(posts, url) ==
    CHOOSE k \in 1..Len(posts) :
        /\ posts[k].url = url
        /\ \A l \in 1..(k - 1) : posts[l].url # url

\* C1: no two stored posts have the same url, whatever sequence of fetch
\* cycles and notify calls has run.
C1_UniqueUrls ==
    \A i, j \in 1..Len(store) : store[i].url = store[j].url => i = j

\* A fetch scraped urls that were all stored already, next to other posts.
C1_Witness ==
    /\ lastOp.kind \in {"fetch", "cycle"}
    /\ lastOp.fetched > 0
    /\ lastOp.new = 0
    /\ ~Raised(lastOp.exc)
    /\ Len(store) >= 2
    /\ \E i \in 1..Len(store) : store[i].notified

\* C2: a successful fetch cycle that directly follows a successful fetch cycle
\* and scrapes the same postings (as it does on an unchanged page) inserts
\* nothing (new == 0, new_posts empty) and leaves the store as the first cycle
\* left it.
C2_Idempotent ==
    [][lastOp'.repeat
         => (lastOp'.new = 0 /\ lastOp'.new_posts = <<>> /\ store' = store)]_vars

\* The second of two successive fetches of a page with two postings.
C2_Witness ==
    /\ lastOp.repeat
    /\ lastOp.fetched = 2
    /\ Len(store) = 2
    /\ lastOp.new = 0

\* C3: a notify call sends posts that were unnotified, oldest first by creation
\* time; a mark follows the successful send of the same post, and a post
\* becomes notified only by such a mark of a notify call.
C3_NotifyOrder ==
    [][/\ \A k, l \in SendAt(lastOp'.events) :
            k < l => DocOf(store', lastOp'.events[k].id).created_at
                       < DocOf(store', lastOp'.events[l].id).created_at
       /\ \A k \in MarkAt(lastOp'.events) :
            /\ k > 1
            /\ lastOp'.events[k - 1].ev = "send"
            /\ lastOp'.events[k - 1].id = lastOp'.events[k].id
            /\ lastOp'.events[k - 1].ok
       /\ Ran("notify") =>
            \A k \in SendAt(lastOp'.events) :
                ~DocOf(store, lastOp'.events[k].id).notified
       /\ \A i \in 1..Len(store') :
            NewlyNotified(i) =>
                /\ Ran("notify")
                /\ \E k \in MarkAt(lastOp'.events) :
                      lastOp'.events[k].id = store'[i].id]_vars

\* A notify call that delivered three posts.
C3_Witness ==
    /\ lastOp.kind = "notify"
    /\ lastOp.sent = 3
    /\ Cardinality(SendAt(lastOp.events)) = 3

\* C4: when a send of a notify call fails, it is the last thing the call does:
\* if it is the k-th send, the k sends went to the k oldest unnotified posts in
\* order, exactly the first k-1 of them became notified, every other post kept
\* its flag, and sent == k-1.
C4_StopOnFailure ==
    [][Ran("notify") =>
         \A f \in SendAt(lastOp'.events) :
            ~lastOp'.events[f].ok =>
               LET sends == SelectSeq(lastOp'.events, LAMBDA e : e.ev = "send")
                   k == Len(sends)
               IN  /\ f = Len(lastOp'.events)
                   /\ \A j \in 1..k : sends[j].id = NthOldestUnnotified(store, j).id
                   /\ \A j \in 1..k : sends[j].ok = (j < k)
                   /\ lastOp'.sent = k - 1
                   /\ Len(store') = Len(store)
                   /\ \A i \in 1..Len(store) :
                        store'[i].notified =
                           (store[i].notified
                              \/ \E j \in 1..(k - 1) : sends[j].id = store[i].id)]_vars

\* The second send failed: one post delivered, the third one never tried.
C4_Witness ==
    /\ lastOp.kind = "notify"
    /\ lastOp.sent = 1
    /\ Len(lastOp.events) = 3
    /\ ~lastOp.events[3].ok
    /\ Cardinality({i \in 1..Len(store) : ~store[i].notified}) = 2

\* C5: new_posts of a successful fetch-now is exactly the posts the call
\* inserted, in the order their urls first appear in what was scraped from the
\* page, and new == len(new_posts) <= fetched.
C5_NewPostsOrder ==
    [][(Ran("fetch") /\ lastOp'.status = 200) =>
         LET np == lastOp'.new_posts
             page == lastOp'.posts
         IN  /\ Len(store') = Len(store) + Len(np)
             /\ SubSeq(store', 1, Len(store)) = store
             /\ \A k \in 1..Len(np) :
                   /\ store'[Len(store) + k].url = np[k].url
                   /\ store'[Len(store) + k].title = np[k].title
                   /\ ~store'[Len(store) + k].notified
             /\ \A k, l \in 1..Len(np) :
                   k < l => FirstAt(page, np[k].url) < FirstAt(page, np[l].url)
             /\ lastOp'.fetched = Len(page)
             /\ lastOp'.new = Len(np)
             /\ lastOp'.new <= lastOp'.fetched]_vars

\* A fetch-now that inserted two posts next to a post stored earlier.
C5_Witness ==
    /\ lastOp.kind = "fetch"
    /\ lastOp.status = 200
    /\ lastOp.new = 2
    /\ Len(store) = 3

\* C6: on_shutdown with a live scheduler task cancels it, swallows the
\* exception raised by awaiting it, and resets the handle to None.
C6_ShutdownClean ==
    [][(Ran("shutdown") /\ _scheduler_task # NoneTask
          /\ ~Done(tasks[_scheduler_task]))
         => /\ tasks'[_scheduler_task].pc = "Cancelled"
            /\ ~Raised(lastOp'.exc)
            /\ _scheduler_task' = NoneTask]_vars

\* C7: no outcome of a cycle ends the loop with an error: after a cycle the
\* task sleeps, whatever the cycle raised; and the scheduler task, once it
\* sleeps after a cycle, gets to start another cycle unless it is cancelled.
C7_LoopSurvives ==
    /\ [](\A i \in TaskIds : tasks[i].pc # "Failed")
    /\ [][\A i \in TaskIds :
            (tasks[i].pc = "FetchAndStore"
               /\ tasks'[i].pc \notin {"FetchAndStore", "Cancelled"})
              => tasks'[i] = [pc |-> "Sleep", exc |-> NoExc]]_vars
    /\ (_scheduler_task # NoneTask /\ tasks[_scheduler_task].pc = "Sleep")
          ~> (_scheduler_task # NoneTask
                /\ tasks[_scheduler_task].pc \in {"FetchAndStore", "Cancelled"})

\* After a cycle that failed, the next cycle is about to run.
C7_Witness ==
    /\ lastOp.kind = "cycle"
    /\ Raised(lastOp.exc)
    /\ \E i \in TaskIds : tasks[i].pc = "FetchAndStore"

\* C8: a fetch-now whose remote answers a non-success status fails with 502,
\* also when the store is unavailable; with the page fetched and the store
\* unavailable it fails with 500; a failed fetch-now inserts nothing.
C8_FetchFailures ==
    [][Ran("fetch") =>
         /\ (lastOp'.remote.kind = "response" /\ lastOp'.remote.status_code # 200)
               => (lastOp'.status = 502 /\ store' = store)
         /\ (lastOp'.remote.kind = "response" /\ lastOp'.remote.status_code = 200
               /\ ~db)
               => (lastOp'.status = 500 /\ store' = store)
         /\ lastOp'.status # 200 => (store' = store /\ lastOp'.new_posts = <<>>)]_vars

\* The remote failed and the store is unavailable: 502.
C8_Witness ==
    /\ lastOp.kind = "fetch"
    /\ lastOp.remote.status_code = 503
    /\ ~db
    /\ lastOp.status = 502

\* C9: a stored post is never removed, its id, title, url and creation time
\* never change, and the only change it ever undergoes is the flip of notified
\* from false to true by a notify call that sent it with success.
C9_PostLifecycle ==
    [][/\ Len(store') >= Len(store)
       /\ \A i \in 1..Len(store) :
            /\ store'[i].id = store[i].id
            /\ store'[i].title = store[i].title
            /\ store'[i].url = store[i].url
            /\ store'[i].created_at = store[i].created_at
            /\ store[i].notified => store'[i] = store[i]
            /\ store'[i] # store[i] =>
                  /\ Ran("notify")
                  /\ store'[i].notified
                  /\ \E k \in SendAt(lastOp'.events) :
                        lastOp'.events[k].id = store[i].id /\ lastOp'.events[k].ok]_vars

\* A notify call ran over a store that holds a post notified by an earlier call.
C9_Witness ==
    /\ lastOp.kind = "notify"
    /\ lastOp.sent = 1
    /\ \E i \in 1..Len(store) :
          /\ store[i].notified
          /\ \A k \in 1..Len(lastOp.events) : lastOp.events[k].id # store[i].id

\* C10: at most one scheduler task is alive; a task is created only by the
\* startup hook finding the handle None, and a task that has ended stays ended.
C10_SingleLoop ==
    /\ [](Cardinality({i \in TaskIds : ~Done(tasks[i])}) <= 1)
    /\ [][/\ Len(tasks') >= Len(tasks)
          /\ Len(tasks') > Len(tasks) =>
                /\ lastOp'.kind = "startup"
                /\ _scheduler_task = NoneTask
                /\ Len(tasks') = Len(tasks) + 1
          /\ \A i \in TaskIds : Done(tasks[i]) => tasks'[i] = tasks[i]]_vars

\* The startup hook ran again after the loop had ended: no second task.
C10_Witness ==
    /\ lastOp.kind = "startup"
    /\ Len(tasks) = 1
    /\ Done(tasks[1])

Newer(coll, d) ==
    {i \in 1..Len(coll) : ~coll[i].notified /\ coll[i].created_at > d.created_at}
MostRecentUnnotified(coll) ==
    {coll[i].id : i \in {j \in 1..Len(coll) :
                            /\ ~coll[j].notified
                            /\ Cardinality(Newer(coll, coll[j])) < NotifyLimit}}

\* C12: one notify call sends at most 20 messages, all of them for posts among
\* the 20 most recently created unnotified ones; it goes through those oldest
\* first (the j-th send is for the j-th oldest of them), and every post outside
\* them is left exactly as it was.
C12_NotifyWindow ==
    [][Ran("notify") =>
          LET ev == lastOp'.events
              sends == SendAt(ev)
              recent == MostRecentUnnotified(store)
          IN  /\ Cardinality(sends) <= NotifyLimit
              /\ lastOp'.sent <= NotifyLimit
              /\ \A k \in sends :
                    /\ ev[k].id \in recent
                    /\ Cardinality({id \in recent :
                                       DocOf(store, id).created_at
                                         < DocOf(store, ev[k].id).created_at})
                         = Cardinality({l \in sends : l < k})
              /\ \A i \in 1..Len(store) :
                    store[i].id \notin recent => store'[i] = store[i]]_vars

\* A call found more than 20 unnotified posts, sent 20, and the oldest post
\* is still unnotified while the newest is notified.
C12_Witness ==
    /\ lastOp.kind = "notify"
    /\ lastOp.sent = NotifyLimit
    /\ Len(store) > NotifyLimit
    /\ ~store[1].notified
    /\ store[Len(store)].notified

\* The URLs stored in a collection, and the candidates whose URL is not among urls.
StoredUrls(coll) == {coll[i].url : i \in 1..Len(coll)}
Fresh(posts, urls) == SelectSeq(posts, LAMBDA p : p.url \notin urls)

\* C13: store_new_posts tests every candidate against the URLs stored when
\* the call starts: it appends, in input order and with notified = false, one
\* document for each candidate whose URL is not among them (also when two
\* candidates of the call share a URL), returns exactly those candidates in
\* input order, and writes nothing for the other candidates.
C13_SnapshotInsert ==
    [][Ran("store") /\ ~Raised(lastOp'.exc) =>
          LET fresh == Fresh(lastOp'.posts, StoredUrls(store))
          IN  /\ lastOp'.new_posts = fresh
              /\ Len(store') = Len(store) + Len(fresh)
              /\ SubSeq(store', 1, Len(store)) = store
              /\ \A j \in 1..Len(fresh) :
                    /\ store'[Len(store) + j].title = fresh[j].title
                    /\ store'[Len(store) + j].url = fresh[j].url
                    /\ store'[Len(store) + j].notified = FALSE
              /\ fresh = <<>> => store' = store]_vars

\* A call was given two candidates of one URL that was not stored: both were
\* inserted and returned.
C13_Witness ==
    /\ lastOp.kind = "store"
    /\ lastOp.new = 2
    /\ lastOp.new_posts[1].url = lastOp.new_posts[2].url
    /\ Len(store) >= 2

\* What a page says, read off its anchors: the trimmed text of an anchor, its
\* absolute URL, the post it stands for, and the anchors each strategy keeps.
NonSpace(text) == {i \in 1..Len(text) : text[i] # Space}
Trim(text) ==
    IF NonSpace(text) = {} THEN <<>>
    ELSE SubSeq(text,
                CHOOSE i \in NonSpace(text) : \A j \in NonSpace(text) : i <= j,
                CHOOSE i \in NonSpace(text) : \A j \in NonSpace(text) : j <= i)
UrlOf(a) == IF a.href[1] = Site THEN a.href ELSE <<Site>> \o a.href
PostOf(a) == [title |-> Trim(a.text), url |-> UrlOf(a)]
HasDetailPath(a) == \E j \in 1..Len(a.href) : a.href[j] = ViewPrefix
PrimaryPos(page) ==
    {i \in 1..Len(page) :
        /\ page[i].href # <<>>
        /\ page[i].href[1] = ViewPrefix
        /\ NonSpace(page[i].text) # {}}
FallbackPos(page) ==
    {i \in 1..Len(page) :
        page[i].inLi /\ HasDetailPath(page[i]) /\ NonSpace(page[i].text) # {}}
Eligible(page) == IF PrimaryPos(page) # {} THEN PrimaryPos(page) ELSE FallbackPos(page)
\* The eligible anchors that are the first of their URL.
FirstOfUrl(page) ==
    {i \in Eligible(page) :
        \A j \in Eligible(page) : j < i => UrlOf(page[j]) # UrlOf(page[i])}

\* C14: the posts of one scrape have pairwise distinct URLs; of the anchors
\* that normalize to one URL only the first that is not skipped is kept, with
\* its own title; the posts come in the order in which their anchors first
\* appear in the page; no post comes from an anchor without title or href.
C14_FirstOccurrenceWins ==
    lastOp.kind = "scrape" =>
        LET page == lastOp.page
            posts == lastOp.posts
            firsts == FirstOfUrl(page)
        IN  /\ \A k, l \in 1..Len(posts) : k # l => posts[k].url # posts[l].url
            /\ Len(posts) = Cardinality(firsts)
            /\ \A i \in firsts :
                  posts[Cardinality({j \in firsts : j <= i})] = PostOf(page[i])
            /\ \A k \in 1..Len(posts) : posts[k].title # <<>> /\ posts[k].url # <<>>

\* Two anchors of one URL and different titles were scraped, with a posting of
\* another URL after them.
C14_Witness ==
    /\ lastOp.kind = "scrape"
    /\ lastOp.fetched = 2
    /\ \E i, j \in Eligible(lastOp.page) :
          /\ i < j
          /\ UrlOf(lastOp.page[i]) = UrlOf(lastOp.page[j])
          /\ Trim(lastOp.page[i].text) # Trim(lastOp.page[j].text)
          /\ \E l \in Eligible(lastOp.page) :
                j < l /\ UrlOf(lastOp.page[l]) # UrlOf(lastOp.page[j])

\* C15 (as stated): when the primary strategy yields a post, every post of the
\* result is the post of a primary anchor; when it yields none, the result is
\* the list-item anchors whose href contains the detail path: each of them has
\* its URL in the result, and the result has nothing else.
C15_FallbackAllListItems ==
    lastOp.kind = "scrape" =>
        LET page == lastOp.page
            posts == lastOp.posts
            listed == {i \in 1..Len(page) : page[i].inLi /\ HasDetailPath(page[i])}
        IN  /\ PrimaryPos(page) # {} =>
                  \A k \in 1..Len(posts) :
                      \E i \in PrimaryPos(page) : posts[k] = PostOf(page[i])
            /\ PrimaryPos(page) = {} =>
                  /\ \A i \in listed : \E k \in 1..Len(posts) : posts[k].url = UrlOf(page[i])
                  /\ \A k \in 1..Len(posts) : \E i \in listed : posts[k] = PostOf(page[i])

\* C15 (amended): as stated, but the fallback keeps only the list-item
\* anchors with the detail path in their href that also have a text left
\* after trimming; a single such anchor gives exactly one post.
C15_FallbackWhenPrimaryEmpty ==
    lastOp.kind = "scrape" =>
        LET page == lastOp.page
            posts == lastOp.posts
        IN  /\ PrimaryPos(page) # {} =>
                  \A k \in 1..Len(posts) :
                      \E i \in PrimaryPos(page) : posts[k] = PostOf(page[i])
            /\ PrimaryPos(page) = {} =>
                  /\ \A i \in FallbackPos(page) :
                        \E k \in 1..Len(posts) : posts[k].url = UrlOf(page[i])
                  /\ \A k \in 1..Len(posts) :
                        \E i \in FallbackPos(page) : posts[k] = PostOf(page[i])
                  /\ Cardinality(FallbackPos(page)) = 1 => Len(posts) = 1

\* The primary strategy found an anchor but no post (blank text), and the
\* fallback kept one list-item anchor and skipped the blank one.
C15_Witness ==
    /\ lastOp.kind = "scrape"
    /\ PrimaryPos(lastOp.page) = {}
    /\ lastOp.fetched = 1
    /\ \E i \in 1..Len(lastOp.page) :
          /\ lastOp.page[i].inLi
          /\ HasDetailPath(lastOp.page[i])
          /\ NonSpace(lastOp.page[i].text) = {}

\* The moves of the scheduler loop: started, warm-up over, cycle done (now
\* sleeping the interval), interval over; and cancellation from any of them.
LoopMoves ==
    {<<"Idle", "Warmup">>, <<"Warmup", "FetchAndStore">>,
     <<"FetchAndStore", "Sleep">>, <<"Sleep", "FetchAndStore">>}
    \cup {<<pc, "Cancelled">> : pc \in {"Idle", "Warmup", "FetchAndStore", "Sleep"}}

\* C16: a scheduler task starts Idle, goes through the warm-up, then
\* alternates fetch cycle and interval sleep, and ends Cancelled.  A cycle is
\* run only by a task whose sleep (warm-up or interval) has elapsed and leaves
\* that task in its interval sleep, so one interval sleep lies between two
\* cycles of a task; a cancelled task takes no further step.
C16_LoopOrder ==
    [][/\ \A i \in TaskIds :
             tasks'[i].pc # tasks[i].pc => <<tasks[i].pc, tasks'[i].pc>> \in LoopMoves
       /\ \A i \in (1..Len(tasks')) \ TaskIds : tasks'[i].pc = "Idle"
       /\ \A i \in TaskIds : tasks[i].pc = "Cancelled" => tasks'[i] = tasks[i]
       /\ Ran("cycle") \/ (store' # store /\ lastOp'.kind = "cycle") =>
             \E i \in TaskIds :
                 /\ tasks[i].pc = "FetchAndStore"
                 /\ tasks'[i].pc = "Sleep"]_vars

\* The only task ran a fetch cycle and was cancelled in the sleep after it.
C16_Witness ==
    /\ Len(tasks) = 1
    /\ tasks[1].pc = "Cancelled"
    /\ lastOp.kind = "cycle"
    /\ lastOp.new >= 1

\* C17: every send is one call of requests.post whose outcome becomes a
\* boolean: true only on a success status (2xx), false on every other status
\* and on a transport failure; no exception leaves the notifier, so a notify
\* call with a configured store answers 200 whatever the sends did.
C17_SendIsBoolean ==
    /\ \A k \in SendAt(lastOp.events) :
          LET e == lastOp.events[k]
              success == e.outcome.kind = "response"
                           /\ e.outcome.status_code \in 200..299
          IN  /\ e.attempts = 1
              /\ e.ok \in BOOLEAN
              /\ e.ok => success
              /\ ~success => ~e.ok
              /\ e.outcome.kind = "raise" => ~e.ok
    /\ lastOp.kind = "notify" /\ db => ~Raised(lastOp.exc) /\ lastOp.status = 200
    /\ lastOp.kind = "notify" =>
          \A k, l \in SendAt(lastOp.events) :
              k # l => lastOp.events[k].id # lastOp.events[l].id

\* A call sent one message with success, and its second send failed in transport.
C17_Witness ==
    /\ lastOp.kind = "notify"
    /\ lastOp.sent = 1
    /\ lastOp.status = 200
    /\ \E k \in SendAt(lastOp.events) : lastOp.events[k].outcome.kind = "raise"

\* C18: Telegram accepts at most one message for each stored post: a post
\* whose message was accepted is notified when the call ends, and no later
\* call sends for it again.
C18_DeliveredOnce ==
    /\ [](\A id \in DOMAIN delivered :
             /\ delivered[id] <= 1
             /\ delivered[id] = 1 => DocOf(store, id).notified)
    /\ [][Ran("notify") =>
             \A k \in SendAt(lastOp'.events) :
                 LET id == lastOp'.events[k].id
                 IN  id \in DOMAIN delivered => delivered[id] = 0]_vars

\* A notify call delivered a post while another post, delivered by an earlier
\* call, was not sent again.
C18_Witness ==
    /\ lastOp.kind = "notify"
    /\ lastOp.sent >= 1
    /\ \E id \in DOMAIN delivered :
          /\ delivered[id] = 1
          /\ \A k \in 1..Len(lastOp.events) : lastOp.events[k].id # id

\* C19: a fetch cycle (request or scheduler) only appends posts and leaves
\* every stored post as it was; a notify call neither adds nor removes a post
\* and changes nothing but notified and updated_at, and those only of posts
\* whose send succeeded in this call; the health and list-posts requests
\* change nothing at all; nothing else touches the store.
C19_Frame ==
    [][/\ lastOp'.kind \in {"fetch", "cycle"} =>
             /\ Len(store') >= Len(store)
             /\ SubSeq(store', 1, Len(store)) = store
       /\ lastOp'.kind = "notify" =>
             /\ Len(store') = Len(store)
             /\ \A i \in 1..Len(store) :
                   /\ [store'[i] EXCEPT !.notified = store[i].notified,
                                        !.updated_at = store[i].updated_at] = store[i]
                   /\ store'[i] # store[i] =>
                         \E k \in SendAt(lastOp'.events) :
                             /\ lastOp'.events[k].id = store[i].id
                             /\ lastOp'.events[k].ok
       /\ lastOp'.kind \in {"root", "posts"} => store' = store /\ now' = now
       /\ Ran("root") \/ Ran("posts") =>
             /\ tasks' = tasks
             /\ _scheduler_task' = _scheduler_task
             /\ db' = db
       /\ store' # store => lastOp'.kind \in {"fetch", "cycle", "notify"}]_vars

\* A notify call marked two of three posts; the third, whose send failed, is
\* as it was stored.
C19_Witness ==
    /\ lastOp.kind = "notify"
    /\ lastOp.sent = 2
    /\ Len(store) = 3
    /\ ~store[3].notified
    /\ store[3].updated_at = store[3].created_at
    /\ \E k \in SendAt(lastOp.events) :
          lastOp.events[k].id = store[3].id /\ ~lastOp.events[k].ok

\* The backlog: how many stored posts are not notified.
Unnotified(coll) == Cardinality({i \in 1..Len(coll) : ~coll[i].notified})
Min(a, b) == IF a <= b THEN a ELSE b

\* C20: with no post inserted and notify called again and again with every
\* send accepted, every stored post is notified in the end.  A call whose
\* sends are all accepted takes min(20, backlog) posts off the backlog and
\* reports that number as sent; on an empty backlog it reports sent = 0 and
\* changes nothing.
C20_BacklogDrains ==
    /\ <>(Unnotified(store) = 0)
    /\ [][Unnotified(store) = 0 => Unnotified(store') = 0]_vars
    /\ [][Ran("notify") /\ (\A k \in SendAt(lastOp'.events) : lastOp'.events[k].ok) =>
             LET backlog == Unnotified(store)
             IN  /\ Unnotified(store') = backlog - Min(NotifyLimit, backlog)
                 /\ lastOp'.sent = Min(NotifyLimit, backlog)
                 /\ backlog > 0 => Unnotified(store') < backlog
                 /\ backlog = 0 => lastOp'.sent = 0 /\ store' = store /\ now' = now]_vars

\* A backlog of more than 20 posts was drained: the last call sent the posts
\* the first 20 sends had left over.
C20_Witness ==
    /\ lastOp.kind = "notify"
    /\ Len(store) > NotifyLimit
    /\ Unnotified(store) = 0
    /\ lastOp.sent = Len(store) - NotifyLimit

====
